---- MODULE Spec2Model ----
(***************************************************************************)
(* Model of the chess rules engine of src/src/game.cpp (ChessGame).         *)
(* The Board and Piece classes are declared in headers that are not part   *)
(* of the sources; their primitives (Piece::isMoveValid, Board::move,      *)
(* Board::enPassantMove, Board::promotionMove) are modelled from the       *)
(* interface description of the specification (sections 3, 4.4 and 6).     *)
(*                                                                         *)
(* Rows and columns are 0..7; row 7 is White's back rank (game.cpp:175),   *)
(* so White pawns advance towards row 0.                                   *)
(***************************************************************************)
EXTENDS Integers, Sequences, FiniteSets, TLC

VARIABLES board, moveList, gameState, turn, pc

vars == <<board, moveList, gameState, turn, pc>>

\* ------------------------------------------------------------------ bounds
\* accepted moves of the game loop explored from every initial game
MaxMoves == 2

\* accepted moves explored from every initial game when every call of the
\* interface is explored
MaxApiMoves == 1

\* length of the move history up to which the automated players move
MaxSearchMoves == 2

\* the depth bounds (MAX_DEPTH) of the minimax player run from 1 to MaxDepth
MaxDepth == 2

\* ------------------------------------------------------- program constants
BoardSize == 8

White == "White"
Black == "Black"

Ongoing == "Ongoing"
CheckForWhite == "CheckForWhite"
CheckForBlack == "CheckForBlack"
CheckmateForWhite == "CheckmateForWhite"
CheckmateForBlack == "CheckmateForBlack"
Stalemate == "Stalemate"
ResignedWhite == "ResignedWhite"
ResignedBlack == "ResignedBlack"

GameStates == {Ongoing, CheckForWhite, CheckForBlack, CheckmateForWhite,
               CheckmateForBlack, Stalemate, ResignedWhite, ResignedBlack}

Pawn == "Pawn"
Knight == "Knight"
Bishop == "Bishop"
Rook == "Rook"
Queen == "Queen"
King == "King"

\* an empty cell (a null shared_ptr<Piece>)
NoPiece == [type |-> "none", color |-> "none", moveCount |-> 0]

Piece(t, c, n) == [type |-> t, color |-> c, moveCount |-> n]

Move(i, j, k, l, c) ==
    [oldRow |-> i, oldCol |-> j, newRow |-> k, newCol |-> l, color |-> c]

\* ------------------------------------------------------------ arithmetic
abs(x) == IF x < 0 THEN -x ELSE x

\* (b - a) / abs(b - a) with C++ integer division, 0 when a = b
stepDir(a, b) == IF b > a THEN 1 ELSE IF b < a THEN -1 ELSE 0

opponent(c) == IF c = White THEN Black ELSE White

\* --------------------------------------------------------- board primitives
withinBoard(row, col) ==
    row >= 0 /\ col >= 0 /\ row < BoardSize /\ col < BoardSize

Cells == 0 .. (BoardSize * BoardSize - 1)

cell(row, col) == row * BoardSize + col

getPieceAt(b, row, col) == b[cell(row, col)]

\* Board::move: relocate the piece of the origin cell onto the destination
\* cell, discarding what stood there, and count the move on the piece.
boardMove(b, m) ==
    LET p == getPieceAt(b, m.oldRow, m.oldCol)
        from == cell(m.oldRow, m.oldCol)
        to == cell(m.newRow, m.newCol)
    IN  IF p = NoPiece THEN b
        ELSE [x \in Cells |->
                IF x = to THEN [p EXCEPT !.moveCount = @ + 1]
                ELSE IF x = from THEN NoPiece
                ELSE b[x]]

\* Board::enPassantMove: the plain relocation, and the passed pawn (beside
\* the origin, in the destination column) is discarded.
enPassantMove(b, m) ==
    [boardMove(b, m) EXCEPT ![cell(m.oldRow, m.newCol)] = NoPiece]

\* Board::promotionMove, called after the pawn has been relocated: the
\* arriving piece is replaced by the requested piece.
promotionMove(b, m, promotedPiece) ==
    [b EXCEPT ![cell(m.newRow, m.newCol)] = promotedPiece]

\* Piece::isMoveValid: the movement shape of the piece type, ignoring
\* every other piece of the board.
isMoveValid(p, m) ==
    LET dRow == m.newRow - m.oldRow
        dy == abs(dRow)
        dx == abs(m.newCol - m.oldCol)
    IN  CASE p.type = Rook -> dx = 0 \/ dy = 0
          [] p.type = Bishop -> dx = dy
          [] p.type = Queen -> dx = 0 \/ dy = 0 \/ dx = dy
          [] p.type = Knight -> (dx = 1 /\ dy = 2) \/ (dx = 2 /\ dy = 1)
          [] p.type = King -> (dx <= 1 /\ dy <= 1) \/ (dy = 0 /\ dx = 2)
          [] p.type = Pawn ->
                /\ dRow = (IF p.color = White THEN -dy ELSE dy)
                /\ (dy = 1 /\ dx <= 1) \/ (dy = 2 /\ dx = 0)
          [] OTHER -> FALSE

\* ------------------------------------------------------------ isValidMove
\* faulty variant of pathBlocked: the walk starts one cell too far, so the
\* cell next to the origin is never looked at
pathBlockedFromSecond(m, b) ==
    LET dy == abs(m.newRow - m.oldRow)
        dx == abs(m.newCol - m.oldCol)
        n == IF dy > dx THEN dy ELSE dx
        sr == stepDir(m.oldRow, m.newRow)
        sc == stepDir(m.oldCol, m.newCol)
    IN  \E s \in 2 .. (n - 1) :
            getPieceAt(b, m.oldRow + s * sr, m.oldCol + s * sc) # NoPiece

\* the loop of game.cpp:118-131: some cell strictly between origin and
\* destination, walking in unit steps, is occupied
pathBlocked(m, b) ==
    LET dy == abs(m.newRow - m.oldRow)
        dx == abs(m.newCol - m.oldCol)
        n == IF dy > dx THEN dy ELSE dx
        sr == stepDir(m.oldRow, m.newRow)
        sc == stepDir(m.oldCol, m.newCol)
    IN  \E s \in 1 .. (n - 1) :
            getPieceAt(b, m.oldRow + s * sr, m.oldCol + s * sc) # NoPiece

\* faulty variant of enPassantValid: a pawn beside the origin is enough,
\* whatever the last move of the history was
enPassantAnyNeighbor(m, b, ml) ==
    LET neighborCol == m.oldCol + stepDir(m.oldCol, m.newCol)
    IN  /\ withinBoard(m.oldRow, neighborCol)
        /\ getPieceAt(b, m.oldRow, neighborCol).type = Pawn

\* game.cpp:146-168: a pawn's diagonal move onto an empty cell
enPassantValid(m, b, ml) ==
    LET neighborCol == m.oldCol + stepDir(m.oldCol, m.newCol)
    IN  /\ withinBoard(m.oldRow, neighborCol)
        /\ getPieceAt(b, m.oldRow, neighborCol).type = Pawn
        /\ Len(ml) > 0
        /\ LET lastMove == ml[Len(ml)]
           IN  /\ lastMove.newRow = m.oldRow
               /\ lastMove.newCol = neighborCol
               /\ abs(lastMove.newRow - lastMove.oldRow) = 2

\* game.cpp:171-197: the king's two-column move
castlingValid(t, m, b) ==
    LET direction == (m.newCol - m.oldCol) < 0
        rookRow == IF t = White THEN 7 ELSE 0
        rookCol == IF direction THEN 0 ELSE 7
        piece == getPieceAt(b, m.oldRow, m.oldCol)
        nextPiece == getPieceAt(b, rookRow, rookCol)
        lo == IF direction THEN rookCol ELSE m.oldCol
        hi == IF direction THEN m.oldCol ELSE rookCol
    IN  /\ nextPiece # NoPiece
        /\ nextPiece.type = Rook
        /\ ~(piece.moveCount > 0 \/ nextPiece.moveCount > 0)
        /\ \A j \in (lo + 1) .. (hi - 1) :
               getPieceAt(b, m.oldRow, j) = NoPiece

isValidMove(t, m, b, ml) ==
    IF ~withinBoard(m.oldRow, m.oldCol) \/ ~withinBoard(m.newRow, m.newCol)
    THEN FALSE
    ELSE
    LET piece == getPieceAt(b, m.oldRow, m.oldCol)
        nextPiece == getPieceAt(b, m.newRow, m.newCol)
        dy == abs(m.newRow - m.oldRow)
        dx == abs(m.newCol - m.oldCol)
    IN  IF piece = NoPiece THEN FALSE
        ELSE IF ~isMoveValid(piece, m) \/ piece.color # t THEN FALSE
        ELSE IF nextPiece # NoPiece /\ piece.color = nextPiece.color THEN FALSE
        ELSE IF /\ piece.type \in {Bishop, Queen, Rook, Pawn}
                /\ \/ pathBlocked(m, b)
                   \/ (piece.type = Pawn /\ dx = 0 /\ nextPiece # NoPiece)
             THEN FALSE
        ELSE IF piece.type = Pawn /\ dy > 1 /\ piece.moveCount > 0 THEN FALSE
        ELSE IF piece.type = Pawn /\ dy > 0 /\ dx > 0 /\ nextPiece = NoPiece
             THEN enPassantValid(m, b, ml)
        ELSE IF piece.type = King /\ dx = 2 THEN castlingValid(t, m, b)
        ELSE TRUE

\* --------------------------------------------------------- move generation
\* The four nested loops of game.cpp:221-232.  Origins that hold no piece
\* of the colour are rejected by isValidMove (game.cpp:93), so only the
\* other origins are paired with the 64 destinations.
generateLegalMovesInternal(color, b, ml) ==
    LET origins == {x \in Cells : b[x].color = color}
    IN  {mv \in {Move(o \div BoardSize, o % BoardSize,
                      d \div BoardSize, d % BoardSize, color) :
                     o \in origins, d \in Cells} :
            isValidMove(color, mv, b, ml)}

\* first king of the colour in row-major order, <<-1, -1>> when there is none
findKing(color, b) ==
    LET ks == {x \in Cells : b[x].type = King /\ b[x].color = color}
    IN  IF ks = {} THEN <<-1, -1>>
        ELSE LET k == CHOOSE x \in ks : \A y \in ks : x <= y
             IN  <<k \div BoardSize, k % BoardSize>>

isCheckInternal(m, king) == m.newRow = king[1] /\ m.newCol = king[2]

\* game.cpp:70-82 looks among generateLegalMovesInternal(opponent) for a
\* move that isCheckInternal accepts.  Such a move ends on the king's cell,
\* so of the destinations only that cell is paired with the origins.
isKingInCheckInternal(kingColor, b, ml) ==
    LET king == findKing(kingColor, b)
        color == opponent(kingColor)
    IN  \E o \in {x \in Cells : b[x].color = color} :
            LET m == Move(o \div BoardSize, o % BoardSize,
                          king[1], king[2], color)
            IN  isValidMove(color, m, b, ml) /\ isCheckInternal(m, king)

\* --------------------------------------------------------------- the game
\* A ChessGame value: the fields the copy constructor copies (game.cpp:11-14).
Game(b, ml, gs, t) == [board |-> b, moveList |-> ml, gameState |-> gs, turn |-> t]

\* the square the king passes over, and the rook's relocation (game.cpp:279-306)
castlingIntermediate(m) ==
    Move(m.oldRow, m.oldCol, m.newRow,
         m.oldCol + stepDir(m.oldCol, m.newCol), m.color)

castlingFinal(m) ==
    LET im == castlingIntermediate(m)
    IN  Move(im.newRow, im.newCol, im.newRow,
             im.newCol + stepDir(m.oldCol, m.newCol), m.color)

castlingRookMove(t, m) ==
    LET direction == (m.newCol - m.oldCol) < 0
        rookRow == IF t = White THEN 7 ELSE 0
        rookCol == IF direction THEN 0 ELSE 7
    IN  Move(rookRow, rookCol, rookRow,
             m.oldCol + stepDir(m.oldCol, m.newCol), m.color)

\* faulty variant of castlingThroughCheck: the square the king passes over
\* is not examined
castlingEndpointsCheck(t, m, b, ml) ==
    LET b1 == boardMove(b, castlingIntermediate(m))
        b2 == boardMove(b1, castlingFinal(m))
    IN  \/ isKingInCheckInternal(t, b, ml)
        \/ isKingInCheckInternal(t, b2, ml)

\* the three positions of game.cpp:275-297: the king is checked
\* on its origin, on the square it passes over or on its final square
castlingThroughCheck(t, m, b, ml) ==
    LET b1 == boardMove(b, castlingIntermediate(m))
        b2 == boardMove(b1, castlingFinal(m))
    IN  \/ isKingInCheckInternal(t, b, ml)
        \/ isKingInCheckInternal(t, b1, ml)
        \/ isKingInCheckInternal(t, b2, ml)

\* faulty variant of resetCheck: a recorded check is never cleared
neverReset(gs, t) == gs

\* game.cpp:326-329
resetCheck(gs, t) ==
    IF gs = (IF t = White THEN CheckForBlack ELSE CheckForWhite)
    THEN Ongoing ELSE gs

\* faulty variant of reject: the simulation ran on the game's own board
rejectAfterLiveSimulation(g, preliminaryBoard) ==
    [ok |-> FALSE, game |-> [g EXCEPT !.board = preliminaryBoard]]

\* Board preliminaryBoard = Board(*board) (game.cpp:257): the simulation
\* runs on a copy, so a rejection returns with the game as it was
reject(g, preliminaryBoard) == [ok |-> FALSE, game |-> g]

\* the commit of game.cpp:268-329: the board after the move, the history
\* extended, a check against the mover cleared
accept(g, m, b) ==
    [ok |-> TRUE,
     game |-> Game(b, Append(g.moveList, m),
                   resetCheck(g.gameState, g.turn), g.turn)]

\* ChessGame::moveInternal: ok is the returned bool, game the object after it
moveInternal(g, m) ==
    IF ~isValidMove(g.turn, m, g.board, g.moveList)
    THEN [ok |-> FALSE, game |-> g]
    ELSE
    LET piece == getPieceAt(g.board, m.oldRow, m.oldCol)
        nextPiece == getPieceAt(g.board, m.newRow, m.newCol)
        dy == abs(m.newRow - m.oldRow)
        dx == abs(m.newCol - m.oldCol)
        preliminaryBoard == boardMove(g.board, m)
    IN  IF piece.type = Pawn /\ dy > 0 /\ dx > 0 /\ nextPiece = NoPiece
        THEN \* en passant
             IF isKingInCheckInternal(g.turn, preliminaryBoard, g.moveList)
             THEN reject(g, preliminaryBoard)
             ELSE accept(g, m, enPassantMove(g.board, m))
        ELSE IF piece.type = King /\ dx = 2
        THEN \* castling
             IF castlingThroughCheck(g.turn, m, g.board, g.moveList)
             THEN reject(g, boardMove(g.board, castlingIntermediate(m)))
             ELSE accept(g, m, boardMove(boardMove(g.board, m),
                                         castlingRookMove(g.turn, m)))
        ELSE IF isKingInCheckInternal(g.turn, preliminaryBoard, g.moveList)
             THEN reject(g, preliminaryBoard)
             ELSE accept(g, m, boardMove(g.board, m))

\* ChessGame::computeState: the GameState after evaluating check against color
computeState(g, color) ==
    IF isKingInCheckInternal(color, g.board, g.moveList)
    THEN LET opponentMoves ==
                 generateLegalMovesInternal(color, g.board, g.moveList)
             outOfCheck ==
                 \E m \in opponentMoves :
                     ~isKingInCheckInternal(color, boardMove(g.board, m),
                                            g.moveList)
         IN  IF outOfCheck
             THEN (IF color = White THEN CheckForBlack ELSE CheckForWhite)
             ELSE (IF color = White THEN CheckmateForBlack
                                    ELSE CheckmateForWhite)
    ELSE g.gameState

\* the bool ChessGame::move and ChessGame::movePromotion return
\* (game.cpp:335, 345)
moveOk(g, m) == moveInternal(g, m).ok

\* ChessGame::move
move(g, m) ==
    LET r == moveInternal(g, m)
    IN  IF r.ok
        THEN [ok |-> TRUE,
              game |-> [r.game EXCEPT
                          !.gameState = computeState(r.game, opponent(g.turn))]]
        ELSE r

\* ChessGame::movePromotion
movePromotion(g, m, promotedPiece) ==
    LET r == moveInternal(g, m)
    IN  IF r.ok
        THEN LET pg == [r.game EXCEPT
                          !.board = promotionMove(r.game.board, m, promotedPiece)]
             IN  [ok |-> TRUE,
                  game |-> [pg EXCEPT
                              !.gameState = computeState(pg, opponent(g.turn))]]
        ELSE r

\* faulty variant of generateLegalMoves: the moves that expose the king are
\* not removed
pseudoLegalMoves(g) == generateLegalMovesInternal(g.turn, g.board, g.moveList)

\* ChessGame::generateLegalMoves, with its own castling simulation
\* (game.cpp:382-405)
generateLegalMoves(g) ==
    {m \in generateLegalMovesInternal(g.turn, g.board, g.moveList) :
        LET piece == getPieceAt(g.board, m.oldRow, m.oldCol)
            dx == abs(m.newCol - m.oldCol)
            step == stepDir(m.oldCol, m.newCol)
        IN  IF piece.type = King /\ dx = 2
            THEN LET intermediate ==
                         Move(m.oldRow, m.oldCol, m.newRow, m.oldCol + step,
                              m.color)
                     final ==
                         Move(intermediate.newRow, intermediate.newCol,
                              intermediate.newRow,
                              intermediate.newCol + step, m.color)
                     b1 == boardMove(g.board, intermediate)
                     b2 == boardMove(b1, final)
                 IN  /\ ~isKingInCheckInternal(g.turn, g.board, g.moveList)
                     /\ ~isKingInCheckInternal(g.turn, b1, g.moveList)
                     /\ ~isKingInCheckInternal(g.turn, b2, g.moveList)
            ELSE ~isKingInCheckInternal(g.turn, boardMove(g.board, m),
                                        g.moveList)}

\* faulty variant of computeStalemate: the recorded check is not consulted
stalemateWhenNoMoves(g) ==
    IF generateLegalMoves(g) = {} THEN Stalemate ELSE g.gameState

\* ChessGame::computeStalemate: the GameState after the call
computeStalemate(g) ==
    IF /\ g.gameState # (IF g.turn = White THEN CheckForBlack ELSE CheckForWhite)
       /\ g.gameState # (IF g.turn = White THEN CheckmateForBlack
                                           ELSE CheckmateForWhite)
       /\ generateLegalMoves(g) = {}
    THEN Stalemate ELSE g.gameState

\* faulty variant of resign: only a game that is going on can be resigned
resignWhileOngoing(g) ==
    IF g.gameState = Ongoing
    THEN (IF g.turn = White THEN ResignedWhite ELSE ResignedBlack)
    ELSE g.gameState

\* ChessGame::resign
resign(g) == IF g.turn = White THEN ResignedWhite ELSE ResignedBlack

\* ChessGame::changeTurn
changeTurn(t) == IF t = White THEN Black ELSE White

\* ChessGame::isPromotion
isPromotion(g, m) ==
    IF ~withinBoard(m.oldRow, m.oldCol) \/ ~withinBoard(m.newRow, m.newCol)
    THEN FALSE
    ELSE
    LET piece == getPieceAt(g.board, m.oldRow, m.oldCol)
        nextPiece == getPieceAt(g.board, m.newRow, m.newCol)
    IN  IF piece = NoPiece THEN FALSE
        ELSE IF ~isMoveValid(piece, m) \/ piece.color # g.turn THEN FALSE
        ELSE IF nextPiece # NoPiece /\ piece.color = nextPiece.color THEN FALSE
        ELSE piece.type = Pawn /\ (m.newRow = 7 \/ m.newRow = 0)

\* ChessGame::kingIsInCheck
kingIsInCheck(g, kingColor) ==
    isKingInCheckInternal(kingColor, g.board, g.moveList)

\* ChessGame::isCapture (isCaptureInternal, game.cpp:202-204)
isCapture(g, m) == getPieceAt(g.board, m.newRow, m.newCol) # NoPiece

\* ChessGame::isCheck: the opponent of the move's colour is in check after
\* the plain relocation
isCheck(g, m) ==
    isKingInCheckInternal(opponent(m.color), boardMove(g.board, m), g.moveList)

\* game.cpp:206-209
isCaptureTargetInternal(m, target) ==
    m.newRow = target[1] /\ m.newCol = target[2]

\* ChessGame::isMoveSafe looks among the opponent's moves of
\* generateLegalMovesInternal for one that isCaptureTargetInternal accepts.
\* Such a move ends on the destination of the move, so of the destinations
\* only that cell is paired with the origins.
isMoveSafe(g, m) ==
    LET testBoard == boardMove(g.board, m)
        color == opponent(m.color)
        target == <<m.newRow, m.newCol>>
    IN  ~\E o \in {x \in Cells : testBoard[x].color = color} :
            LET mv == Move(o \div BoardSize, o % BoardSize,
                           m.newRow, m.newCol, color)
            IN  /\ isValidMove(color, mv, testBoard, g.moveList)
                /\ isCaptureTargetInternal(mv, target)

\* the table of game.cpp:491-492
pieceValue(type) ==
    CASE type = King -> 10000
      [] type = Queen -> 900
      [] type = Rook -> 500
      [] type = Bishop -> 330
      [] type = Knight -> 320
      [] type = Pawn -> 100
      [] OTHER -> 0

\* the values the loops of game.cpp:494-506 add up for the pieces of one
\* colour
material(b, color) ==
    LET count(t) == Cardinality({x \in Cells : /\ b[x] # NoPiece
                                               /\ b[x].type = t
                                               /\ b[x].color = color})
    IN  pieceValue(King) * count(King) + pieceValue(Queen) * count(Queen)
        + pieceValue(Rook) * count(Rook) + pieceValue(Bishop) * count(Bishop)
        + pieceValue(Knight) * count(Knight) + pieceValue(Pawn) * count(Pawn)

\* ChessGame::evaluateBoard: the pieces of color count for, all others
\* against
evaluateBoard(g, color) ==
    material(g.board, color) - material(g.board, opponent(color))

\* ----------------------------------------------------------------- players
\* the position of a move in the enumeration of game.cpp:221-225
moveKey(m) ==
    ((m.oldRow * BoardSize + m.oldCol) * BoardSize + m.newRow) * BoardSize
        + m.newCol

\* the moves of S as the vector holds them: origins row by row, and for
\* each origin the destinations row by row
inOrder(S) ==
    [i \in 1 .. Cardinality(S) |->
        CHOOSE m \in S :
            Cardinality({y \in S : moveKey(y) < moveKey(m)}) = i - 1]

\* the vector generateLegalMoves returns, in the order it is filled (the
\* set S is computed once)
legalMoveList(g) ==
    CHOOSE v \in {inOrder(S) : S \in {generateLegalMoves(g)}} : TRUE

\* abnormal termination, written as a move outside the board
Crash ==
    [oldRow |-> -1, oldCol |-> -1, newRow |-> -1, newCol |-> -1,
     color |-> "none"]

\* legalMoves[rand() % legalMoves.size()] on an empty vector divides by
\* zero and reads an element that does not exist: the call may terminate
\* abnormally or return any move
undefinedMoves(g) ==
    {Crash} \cup {Move(i, j, k, l, g.turn) : i, j, k, l \in {0, BoardSize - 1}}

\* moves[rand() % moves.size()]: the moves the call may return
randomElement(g, moves) == IF moves = {} THEN undefinedMoves(g) ELSE moves

\* Level1::getMove: the moves the call may return
Level1getMove(g) == randomElement(g, generateLegalMoves(g))

\* Level2::getMove
Level2getMove(g) ==
    LET legalMoves == generateLegalMoves(g)
        preferredMoves == {m \in legalMoves : isCapture(g, m) \/ isCheck(g, m)}
    IN  IF preferredMoves # {} THEN preferredMoves
        ELSE randomElement(g, legalMoves)

\* Level3::getMove
Level3getMove(g) ==
    LET legalMoves == generateLegalMoves(g)
        checks == {m \in legalMoves : isCheck(g, m)}
        captures == {m \in legalMoves : isCapture(g, m)}
        safe == {m \in legalMoves : isMoveSafe(g, m)}
    IN  IF checks # {} THEN checks
        ELSE IF captures # {} THEN captures
        ELSE IF safe # {} THEN safe
        ELSE randomElement(g, legalMoves)

max(a, b) == IF a > b THEN a ELSE b

min(a, b) == IF a < b THEN a ELSE b

\* Move{0, 0, 0, 0}
noMove == [oldRow |-> 0, oldCol |-> 0, newRow |-> 0, newCol |-> 0,
           color |-> "none"]

\* faulty variant of simulatedOn: the simulation ran on the node's own game
simulatedInPlace(game, tempGame) == tempGame

\* ChessGame tempGame = game (players.cpp:95, 113): the move is simulated
\* on a copy, so the node's game after the simulation is what it was
simulatedOn(game, tempGame) == game

\* Level4::minimax with MAX_DEPTH = maxDepth and the player's colour.  The
\* result holds the returned value, the player's bestMove (best on entry)
\* and the game passed by reference as the call leaves it.  A local
\* variable of the code is a variable bound in a one-element set: s is the
\* state of the loop, r the result of the recursive call.
RECURSIVE minimax(_, _, _, _, _, _, _, _)
RECURSIVE maximize(_, _, _, _, _, _, _, _, _)
RECURSIVE minimize(_, _, _, _, _, _, _, _, _)

\* the loop of players.cpp:94-108 after its first i iterations: value is
\* maxEval, and break tells that the loop was left
maximize(game, legalMoves, i, depth, alpha, beta, best, color, maxDepth) ==
    IF i = 0
    THEN [value |-> -1000000, bestMove |-> best, game |-> game,
          alpha |-> alpha, break |-> FALSE]
    ELSE CHOOSE next \in
           {IF s.break THEN s
            ELSE CHOOSE t \in
                   {[value |-> max(s.value, r.value),
                     bestMove |-> IF r.value > s.value /\ depth = maxDepth
                                  THEN legalMoves[i] ELSE r.bestMove,
                     game |-> simulatedOn(s.game, r.game),
                     alpha |-> max(s.alpha, r.value),
                     break |-> beta <= max(s.alpha, r.value)] :
                    r \in {minimax(move(s.game, legalMoves[i]).game,
                                   depth - 1, s.alpha, beta, FALSE,
                                   s.bestMove, color, maxDepth)}} : TRUE :
            s \in {maximize(game, legalMoves, i - 1, depth, alpha, beta,
                            best, color, maxDepth)}} : TRUE

\* the loop of players.cpp:112-121 after its first i iterations: value is
\* minEval
minimize(game, legalMoves, i, depth, alpha, beta, best, color, maxDepth) ==
    IF i = 0
    THEN [value |-> 1000000, bestMove |-> best, game |-> game,
          beta |-> beta, break |-> FALSE]
    ELSE CHOOSE next \in
           {IF s.break THEN s
            ELSE CHOOSE t \in
                   {[value |-> min(s.value, r.value),
                     bestMove |-> r.bestMove,
                     game |-> simulatedOn(s.game, r.game),
                     beta |-> min(s.beta, r.value),
                     break |-> min(s.beta, r.value) <= alpha] :
                    r \in {minimax(move(s.game, legalMoves[i]).game,
                                   depth - 1, alpha, s.beta, TRUE,
                                   s.bestMove, color, maxDepth)}} : TRUE :
            s \in {minimize(game, legalMoves, i - 1, depth, alpha, beta,
                            best, color, maxDepth)}} : TRUE

minimax(game, depth, alpha, beta, maximizingPlayer, best, color, maxDepth) ==
    IF depth = 0 \/ game.gameState # Ongoing
    THEN [value |-> evaluateBoard(game, color), bestMove |-> best,
          game |-> game]
    ELSE CHOOSE result \in
           {IF maximizingPlayer
            THEN maximize(game, legalMoves, Len(legalMoves), depth, alpha,
                          beta, best, color, maxDepth)
            ELSE minimize(game, legalMoves, Len(legalMoves), depth, alpha,
                          beta, best, color, maxDepth) :
            legalMoves \in {legalMoveList(game)}} : TRUE

\* Level4::getMove of the player of the side to move: the search from the
\* live game
Level4search(g, maxDepth) ==
    minimax(g, maxDepth, -1000000, 1000000, TRUE, noMove, g.turn, maxDepth)

Level4getMove(g, maxDepth) == Level4search(g, maxDepth).bestMove

\* ------------------------------------------------------- initial positions
\* A placement is <<row, col, type, color, moveCount>>.  Pieces that stand
\* on their home squares and never moved have moveCount 0, all others have
\* moved.  In every position neither king can be taken by the side to move.
setup(placements) ==
    [x \in Cells |->
        IF \E p \in placements : cell(p[1], p[2]) = x
        THEN LET p == CHOOSE q \in placements : cell(q[1], q[2]) = x
             IN  Piece(p[3], p[4], p[5])
        ELSE NoPiece]

\* king side: both sides may still castle once the black bishop has left
\* f8; the bishop can reach the diagonals of e1 and g1
PosCastle ==
    setup({<<7, 4, King, White, 0>>, <<7, 7, Rook, White, 0>>,
           <<6, 7, Pawn, White, 0>>,
           <<0, 4, King, Black, 0>>, <<0, 7, Rook, Black, 0>>,
           <<1, 7, Pawn, Black, 0>>, <<0, 5, Bishop, Black, 0>>})

\* queen side: a black knight can reach a3 (attacking b1) and c3
\* (attacking d1)
PosCastleLong ==
    setup({<<7, 4, King, White, 0>>, <<7, 0, Rook, White, 0>>,
           <<6, 0, Pawn, White, 0>>,
           <<0, 7, King, Black, 1>>, <<3, 1, Knight, Black, 1>>})

\* a black pawn on e2 attacks f1, the square the white king passes over
PosThrough ==
    setup({<<7, 4, King, White, 0>>, <<7, 7, Rook, White, 0>>,
           <<6, 7, Pawn, White, 0>>,
           <<6, 4, Pawn, Black, 1>>, <<0, 0, King, Black, 1>>})

\* White's king on e1 is boxed by black pawns; the black knight can give
\* check from d3
PosBoxed ==
    setup({<<7, 4, King, White, 0>>, <<7, 7, Rook, White, 0>>,
           <<6, 4, Pawn, Black, 1>>, <<5, 5, Pawn, Black, 1>>,
           <<5, 2, Pawn, Black, 1>>, <<4, 1, Knight, Black, 1>>,
           <<0, 0, King, Black, 1>>})

\* the black pawn on d7 may advance two squares beside the white pawn on
\* e5; the white king shares the fifth rank with a black rook
PosEnPassant ==
    setup({<<3, 0, King, White, 1>>, <<3, 4, Pawn, White, 1>>,
           <<1, 3, Pawn, Black, 0>>, <<3, 7, Rook, Black, 1>>,
           <<2, 7, King, Black, 1>>, <<4, 7, Pawn, Black, 1>>})

\* back rank: the black king in the corner behind its pawns, a white rook
\* on the a file
PosBackRank ==
    setup({<<0, 7, King, Black, 1>>, <<1, 6, Pawn, Black, 0>>,
           <<1, 7, Pawn, Black, 0>>,
           <<7, 0, Rook, White, 1>>, <<7, 1, King, White, 1>>})

\* the black king in the corner in front of a white pawn
PosStalemate ==
    setup({<<0, 0, King, Black, 1>>, <<1, 0, Pawn, White, 1>>,
           <<2, 2, King, White, 1>>})

\* White's queen side as the game starts, against a lone king
PosStart ==
    setup({<<7, 0, Rook, White, 0>>, <<7, 1, Knight, White, 0>>,
           <<7, 2, Bishop, White, 0>>, <<7, 3, Queen, White, 0>>,
           <<7, 4, King, White, 0>>,
           <<6, 0, Pawn, White, 0>>, <<6, 1, Pawn, White, 0>>,
           <<6, 2, Pawn, White, 0>>, <<6, 3, Pawn, White, 0>>,
           <<6, 4, Pawn, White, 0>>,
           <<0, 7, King, Black, 1>>})

\* a white pawn on b7 may advance to b8 or take the knight on c8
PosPromotion ==
    setup({<<1, 1, Pawn, White, 1>>, <<7, 7, King, White, 1>>,
           <<0, 2, Knight, Black, 1>>, <<0, 7, King, Black, 1>>})

\* White's king on a1 has no move; the white pawn on h3 can advance twice
\* before the black pawn on h6 stops it
PosDeadEnd ==
    setup({<<7, 0, King, White, 1>>, <<5, 7, Pawn, White, 1>>,
           <<5, 0, Pawn, Black, 1>>, <<5, 1, Pawn, Black, 1>>,
           <<6, 2, Pawn, Black, 1>>, <<2, 7, Pawn, Black, 1>>,
           <<0, 7, King, Black, 1>>})

\* the black pawn on d3 can give check from d2, where the white king can
\* take it
PosPawnCheck ==
    setup({<<7, 4, King, White, 1>>,
           <<5, 3, Pawn, Black, 1>>, <<0, 0, King, Black, 1>>})

\* after the white pawn's advance g5-g6 the black king on h8 has no move
\* and is not in check
PosPawnStalemate ==
    setup({<<7, 0, King, White, 1>>, <<1, 7, Pawn, White, 1>>,
           <<2, 7, Pawn, White, 1>>, <<3, 6, Pawn, White, 1>>,
           <<0, 7, King, Black, 1>>})

\* the black pawn on d7 may advance two squares beside the white pawn on
\* e5; no other capture and no check is at hand
PosPassant ==
    setup({<<7, 7, King, White, 1>>, <<3, 4, Pawn, White, 1>>,
           <<1, 3, Pawn, Black, 0>>, <<0, 7, King, Black, 1>>})

\* startGame (game.cpp:237-240) on a position that has been set up
startGame(b, t) == Game(b, <<>>, Ongoing, t)

\* one turn of the game loop: an accepted move, then the turn advance
played(g, m) ==
    LET r == move(g, m).game
    IN  [r EXCEPT !.turn = changeTurn(r.turn)]

InitialGames ==
    {startGame(PosCastle, Black),
     startGame(PosCastleLong, Black),
     startGame(PosThrough, White),
     startGame(PosBoxed, Black),
     startGame(PosEnPassant, Black),
     \* the same after the black pawn's advance d7-d5
     played(startGame(PosEnPassant, Black), Move(1, 3, 3, 3, Black)),
     startGame(PosBackRank, White),
     startGame(PosStalemate, White),
     startGame(PosPromotion, White),
     startGame(PosStart, White)}

\* the games the automated players start from
SearchGames ==
    {startGame(PosDeadEnd, White),
     startGame(PosPawnCheck, Black),
     \* White is in check after the black pawn's advance d3-d2
     played(startGame(PosPawnCheck, Black), Move(5, 3, 6, 3, Black)),
     startGame(PosPassant, Black),
     \* the same after the black pawn's advance d7-d5
     played(startGame(PosPassant, Black), Move(1, 3, 3, 3, Black)),
     startGame(PosPawnStalemate, White)}

\* the moves accepted since the initial game the history started from
IsPrefix(s, t) == Len(s) <= Len(t) /\ SubSeq(t, 1, Len(s)) = s

movesPlayed(ml) ==
    LET from == {Len(g.moveList) : g \in {h \in InitialGames :
                                            IsPrefix(h.moveList, ml)}}
    IN  Len(ml) - (CHOOSE n \in from : \A k \in from : k <= n)

\* ------------------------------------------------------------------ inputs

\* The moves a caller tries: from every cell that holds a piece of the side
\* to move, from the first cell that holds a piece of the other side, from
\* the first empty cell and from two cells outside the board, to every cell
\* of the board and to two cells outside of it.
firstCell(S) == IF S = {} THEN {} ELSE {CHOOSE x \in S : \A y \in S : x <= y}

InputOrigins(g) ==
    {<<x \div BoardSize, x % BoardSize>> :
        x \in {y \in Cells : g.board[y].color = g.turn}
              \cup firstCell({y \in Cells : g.board[y].color = opponent(g.turn)})
              \cup firstCell({y \in Cells : g.board[y] = NoPiece})}
        \cup {<<-1, 4>>, <<7, BoardSize>>}

InputDestinations ==
    {<<x \div BoardSize, x % BoardSize>> : x \in Cells}
        \cup {<<BoardSize, 4>>, <<0, -1>>}

MoveInputs(g) ==
    {Move(o[1], o[2], d[1], d[2], g.turn) :
        o \in InputOrigins(g), d \in InputDestinations}

PromotionTypes == {Queen, Knight}

\* ----------------------------------------------------------- state machine
\* pc is the position of the game loop: "advance" while an accepted move
\* awaits its turn advance, "play" otherwise.
Live == Game(board, moveList, gameState, turn)

Init ==
    /\ \E g \in InitialGames :
          /\ board = g.board
          /\ moveList = g.moveList
          /\ gameState = g.gameState
          /\ turn = g.turn
    /\ pc = "play"

Install(g) ==
    /\ board' = g.board
    /\ moveList' = g.moveList
    /\ gameState' = g.gameState
    /\ turn' = g.turn

\* a call of attemptMove: the game becomes what ChessGame::move leaves
callMove ==
    \E m \in MoveInputs(Live) :
        LET r == move(Live, m)
        IN  /\ Install(r.game)
            /\ pc' = IF r.ok THEN "advance" ELSE "play"

\* the game loop's move
PlayMove ==
    /\ pc = "play"
    /\ movesPlayed(moveList) < MaxMoves
    /\ callMove

\* a caller's move, among the other calls of the interface
AttemptMove ==
    /\ pc = "play"
    /\ movesPlayed(moveList) < MaxApiMoves
    /\ callMove

\* the game loop asks for a promotion piece when isPromotion accepts the move
AttemptPromotionMove ==
    /\ pc = "play"
    /\ movesPlayed(moveList) < MaxApiMoves
    /\ \E m \in MoveInputs(Live) :
          /\ isPromotion(Live, m)
          /\ \E t \in PromotionTypes :
                LET r == movePromotion(Live, m, Piece(t, turn, 0))
                IN  /\ Install(r.game)
                    /\ pc' = IF r.ok THEN "advance" ELSE "play"

ChangeTurn ==
    /\ pc = "advance"
    /\ turn' = changeTurn(turn)
    /\ pc' = "play"
    /\ UNCHANGED <<board, moveList, gameState>>

ComputeStalemate ==
    /\ pc = "play"
    /\ UNCHANGED <<board, moveList, turn, pc>>
    /\ gameState' = computeStalemate(Live)

Resign ==
    /\ pc = "play"
    /\ UNCHANGED <<board, moveList, turn, pc>>
    /\ gameState' = resign(Live)

\* the game loop with an automated player: the move getMove returns is
\* given to ChessGame::move
SearchInit ==
    /\ \E g \in SearchGames :
          /\ board = g.board
          /\ moveList = g.moveList
          /\ gameState = g.gameState
          /\ turn = g.turn
    /\ pc = "play"

playReturned(g, m) ==
    LET r == move(g, m)
    IN  /\ Install(r.game)
        /\ pc' = IF r.ok THEN "advance" ELSE "play"

Level1Move ==
    /\ pc = "play"
    /\ Len(moveList) < MaxSearchMoves
    /\ \E m \in Level1getMove(Live) : playReturned(Live, m)

Level2Move ==
    /\ pc = "play"
    /\ Len(moveList) < MaxSearchMoves
    /\ \E m \in Level2getMove(Live) : playReturned(Live, m)

Level3Move ==
    /\ pc = "play"
    /\ Len(moveList) < MaxSearchMoves
    /\ \E m \in Level3getMove(Live) : playReturned(Live, m)

\* the search runs on the live game (*game, players.cpp:128); the move it
\* returns is played on the game as the search left it
Level4Move ==
    /\ pc = "play"
    /\ Len(moveList) < MaxSearchMoves
    /\ \E d \in 1 .. MaxDepth :
          \E r \in {Level4search(Live, d)} : playReturned(r.game, r.bestMove)

NextSearch ==
    \/ Level1Move
    \/ Level2Move
    \/ Level3Move
    \/ Level4Move
    \/ ChangeTurn

SpecSearch == SearchInit /\ [][NextSearch]_vars

\* the game loop: moves and turn advances only
NextPlay == PlayMove \/ ChangeTurn

SpecPlay == Init /\ [][NextPlay]_vars

\* every call of the interface
Next ==
    \/ AttemptMove
    \/ AttemptPromotionMove
    \/ ChangeTurn
    \/ ComputeStalemate
    \/ Resign

Spec == Init /\ [][Next]_vars

\* ======================================================================
\* Properties
\* ======================================================================
checkAgainst(c) == IF c = White THEN CheckForBlack ELSE CheckForWhite

checkmateAgainst(c) == IF c = White THEN CheckmateForBlack ELSE CheckmateForWhite

rowOf(x) == x \div BoardSize

colOf(x) == x % BoardSize

\* the cells of the straight segment strictly between two cells
cellsBetween(x, y) ==
    {z \in Cells :
        /\ z # x /\ z # y
        /\ (rowOf(z) - rowOf(x)) * (colOf(y) - colOf(x))
               = (colOf(z) - colOf(x)) * (rowOf(y) - rowOf(x))
        /\ (rowOf(z) - rowOf(x)) * (rowOf(z) - rowOf(y)) <= 0
        /\ (colOf(z) - colOf(x)) * (colOf(z) - colOf(y)) <= 0}

\* some piece of colour c attacks cell y on board b, by the rules of chess
attackedBy(b, c, y) ==
    \E x \in Cells :
        /\ b[x].color = c
        /\ x # y
        /\ LET dr == rowOf(y) - rowOf(x)
               dc == colOf(y) - colOf(x)
               open == \A z \in cellsBetween(x, y) : b[z] = NoPiece
               straight == dr = 0 \/ dc = 0
               diagonal == abs(dr) = abs(dc)
           IN  CASE b[x].type = Pawn ->
                        dr = (IF c = White THEN -1 ELSE 1) /\ abs(dc) = 1
                 [] b[x].type = Knight ->
                        {abs(dr), abs(dc)} = {1, 2}
                 [] b[x].type = King -> abs(dr) <= 1 /\ abs(dc) <= 1
                 [] b[x].type = Rook -> straight /\ open
                 [] b[x].type = Bishop -> diagonal /\ open
                 [] b[x].type = Queen -> (straight \/ diagonal) /\ open
                 [] OTHER -> FALSE

sameSquares(m, l) ==
    /\ m.oldRow = l.oldRow /\ m.oldCol = l.oldCol
    /\ m.newRow = l.newRow /\ m.newCol = l.newCol

\* ---------------------------------------------------------------------- C1
\* C1: whenever attemptMove or attemptPromotionMove returns failure, the
\* board, the history, the GameState and the turn are what they were
\* before the call.
C1_RejectionChangesNothing ==
    \A m \in MoveInputs(Live) :
        LET r == move(Live, m)
        IN  ~r.ok =>
               /\ r.game = Live
               /\ \A t \in PromotionTypes :
                     LET q == movePromotion(Live, m, Piece(t, turn, 0))
                     IN  ~q.ok /\ q.game = Live

\* after an accepted move and the turn advance, a move of legal shape is
\* rejected because it exposes the mover's king
C1_Witness ==
    /\ pc = "play"
    /\ Len(moveList) > 0
    /\ \E m \in MoveInputs(Live) :
          /\ isValidMove(turn, m, board, moveList)
          /\ ~move(Live, m).ok
          /\ ~movePromotion(Live, m, Piece(Queen, turn, 0)).ok

\* ---------------------------------------------------------------------- C2
\* C2: after every accepted move the mover's own king is not in check on
\* the committed board (the turn has not advanced yet, so the mover is the
\* side to move).
C2_MoverNotInCheck ==
    pc = "advance" => ~kingIsInCheck(Live, turn)

\* ---------------------------------------------------------------------- C3
\* C3: after an accepted move and the turn advance, the GameState is the
\* Checkmate state against the side to move if and only if that side's
\* king is in check and it has no legal move.
C3_CheckmateIffNoLegalMove ==
    (pc = "play" /\ Len(moveList) > 0) =>
        ((gameState = checkmateAgainst(turn))
            <=> (kingIsInCheck(Live, turn) /\ generateLegalMoves(Live) = {}))

\* ---------------------------------------------------------------------- C4
\* C4: in the game loop the GameState records a check (Check or Checkmate)
\* against the side to move exactly when that side's king is in check, and
\* after an accepted move it records no check against the mover.
C4_CheckRecorded ==
    /\ pc = "play" =>
          ((gameState \in {checkAgainst(turn), checkmateAgainst(turn)})
              <=> kingIsInCheck(Live, turn))
    /\ pc = "advance" =>
          gameState \notin {checkAgainst(turn), checkmateAgainst(turn)}

\* a check is recorded against the side to move, which can answer it
C4_Witness ==
    /\ pc = "play"
    /\ gameState = checkAgainst(turn)
    /\ kingIsInCheck(Live, turn)
    /\ generateLegalMoves(Live) # {}

\* ---------------------------------------------------------------------- C5
\* C5: a call of computeStalemate leaves the GameState Stalemate exactly
\* when the side to move is in no check or checkmate state and has no legal
\* move, and leaves the GameState as it was in every other case; no step
\* that changes the board, the history or the turn is a call of
\* computeStalemate.
C5_ComputeStalemate ==
    /\ [](pc = "play" =>
             computeStalemate(Live) =
                 IF /\ gameState \notin {checkAgainst(turn),
                                         checkmateAgainst(turn)}
                    /\ generateLegalMoves(Live) = {}
                 THEN Stalemate ELSE gameState)
    /\ [][(board' # board \/ moveList' # moveList \/ turn' # turn)
             => ~ComputeStalemate]_vars

\* Stalemate has been set for a side that is not in check
C5_Witness ==
    /\ gameState = Stalemate
    /\ ~kingIsInCheck(Live, turn)
    /\ generateLegalMoves(Live) = {}

\* ---------------------------------------------------------------------- C6
\* the board with the piece of cell x standing on cell y instead
relocated(b, x, y) ==
    [z \in Cells |-> IF z = y THEN b[x] ELSE IF z = x THEN NoPiece ELSE b[z]]

\* the two-column moves along a row of a king of the side to move
kingTwoColumnMoves(g) ==
    {m \in MoveInputs(g) :
        /\ withinBoard(m.oldRow, m.oldCol) /\ withinBoard(m.newRow, m.newCol)
        /\ getPieceAt(g.board, m.oldRow, m.oldCol).type = King
        /\ getPieceAt(g.board, m.oldRow, m.oldCol).color = g.turn
        /\ m.newRow = m.oldRow
        /\ abs(m.newCol - m.oldCol) = 2}

\* the conditions of castling, stated on the squares of the board
castlingConditions(g, m) ==
    LET from == cell(m.oldRow, m.oldCol)
        to == cell(m.newRow, m.newCol)
        passing == cell(m.oldRow, (m.oldCol + m.newCol) \div 2)
        corner == cell(IF g.turn = White THEN 7 ELSE 0,
                       IF m.newCol < m.oldCol THEN 0 ELSE 7)
        enemy == opponent(g.turn)
    IN  /\ g.board[from].moveCount = 0
        /\ g.board[corner].type = Rook
        /\ g.board[corner].moveCount = 0
        /\ \A z \in cellsBetween(from, corner) : g.board[z] = NoPiece
        /\ ~attackedBy(g.board, enemy, from)
        /\ ~attackedBy(relocated(g.board, from, passing), enemy, passing)
        /\ ~attackedBy(relocated(g.board, from, to), enemy, to)

\* C6: a king's two-column move is accepted if and only if king and corner
\* rook have never moved, the cells between them are empty and the king is
\* not attacked on its origin, on the square it passes over or on its
\* destination; an accepted one leaves the king on the destination, the rook
\* on the square passed over, and origin and corner empty.
C6_Castling ==
    pc = "play" =>
        \A m \in kingTwoColumnMoves(Live) :
            LET r == move(Live, m)
                passing == cell(m.oldRow, (m.oldCol + m.newCol) \div 2)
                corner == cell(IF turn = White THEN 7 ELSE 0,
                               IF m.newCol < m.oldCol THEN 0 ELSE 7)
            IN  /\ r.ok <=> castlingConditions(Live, m)
                /\ r.ok =>
                      /\ getPieceAt(r.game.board, m.newRow, m.newCol)
                             = Piece(King, turn, 1)
                      /\ r.game.board[passing] = Piece(Rook, turn, 1)
                      /\ getPieceAt(r.game.board, m.oldRow, m.oldCol) = NoPiece
                      /\ r.game.board[corner] = NoPiece

\* a castling has just been accepted: the last move of the history is a
\* king's two-column move and the rook stands on the square passed over
C6_Witness ==
    /\ pc = "advance"
    /\ Len(moveList) > 0
    /\ LET m == moveList[Len(moveList)]
       IN  /\ abs(m.newCol - m.oldCol) = 2
           /\ getPieceAt(board, m.newRow, m.newCol) = Piece(King, turn, 1)
           /\ getPieceAt(board, m.oldRow, (m.oldCol + m.newCol) \div 2)
                  = Piece(Rook, turn, 1)

\* ---------------------------------------------------------------------- C7
\* the diagonal moves onto an empty cell of a pawn of the side to move
pawnDiagonalsOntoEmpty(g) ==
    {m \in MoveInputs(g) :
        /\ withinBoard(m.oldRow, m.oldCol) /\ withinBoard(m.newRow, m.newCol)
        /\ getPieceAt(g.board, m.oldRow, m.oldCol).type = Pawn
        /\ getPieceAt(g.board, m.oldRow, m.oldCol).color = g.turn
        /\ m.newRow # m.oldRow /\ m.newCol # m.oldCol
        /\ getPieceAt(g.board, m.newRow, m.newCol) = NoPiece}

\* the history entry e is a two-row advance that ended beside the origin of
\* m, in the column of its destination
doubleStepBeside(e, m) ==
    /\ abs(e.newRow - e.oldRow) = 2
    /\ e.newRow = m.oldRow
    /\ e.newCol = m.newCol

\* C7: a pawn's diagonal move onto an empty cell is accepted only when the
\* last entry of the history is a two-row advance that ended beside the
\* pawn in the destination column, on a cell that holds an enemy pawn; when
\* that advance is an earlier entry but not the last, the move is rejected;
\* an accepted capture empties the cell of the passed pawn and the origin
\* and puts the capturing pawn on the destination.
C7_EnPassant ==
    pc = "play" =>
        \A m \in pawnDiagonalsOntoEmpty(Live) :
            LET r == move(Live, m)
                n == Len(moveList)
                mover == getPieceAt(board, m.oldRow, m.oldCol)
            IN  /\ r.ok =>
                      /\ n > 0
                      /\ doubleStepBeside(moveList[n], m)
                      /\ getPieceAt(board, m.oldRow, m.newCol).type = Pawn
                      /\ getPieceAt(board, m.oldRow, m.newCol).color
                             = opponent(turn)
                /\ (/\ n > 1
                    /\ doubleStepBeside(moveList[n - 1], m)
                    /\ ~doubleStepBeside(moveList[n], m)) => ~r.ok
                /\ r.ok =>
                      /\ getPieceAt(r.game.board, m.oldRow, m.newCol) = NoPiece
                      /\ getPieceAt(r.game.board, m.oldRow, m.oldCol) = NoPiece
                      /\ getPieceAt(r.game.board, m.newRow, m.newCol)
                             = [mover EXCEPT !.moveCount = @ + 1]

\* an en passant capture has just been accepted: the last two entries of
\* the history are a two-row advance and a diagonal move that passed its
\* landing cell, which is now empty
C7_Witness ==
    /\ pc = "advance"
    /\ Len(moveList) > 1
    /\ LET m == moveList[Len(moveList)]
           e == moveList[Len(moveList) - 1]
       IN  /\ m.newCol # m.oldCol
           /\ doubleStepBeside(e, m)
           /\ getPieceAt(board, m.newRow, m.newCol).type = Pawn
           /\ getPieceAt(board, m.newRow, m.newCol).color = turn
           /\ getPieceAt(board, e.newRow, e.newCol) = NoPiece

\* ---------------------------------------------------------------------- C8
\* C8: a move is accepted by attemptMove if and only if its origin and
\* destination are those of a member of legalMoves() of the same game.
C8_MoveAgreesWithLegalMoves ==
    pc = "play" =>
        LET legal == generateLegalMoves(Live)
        IN  \A m \in MoveInputs(Live) :
                moveOk(Live, m) <=> (\E l \in legal : sameSquares(m, l))

\* after an accepted move, one castling of valid shape is refused by both
\* routines while another move is accepted by both
C8_Witness ==
    /\ pc = "play"
    /\ Len(moveList) > 0
    /\ \E m \in kingTwoColumnMoves(Live) :
          /\ isValidMove(turn, m, board, moveList)
          /\ ~moveOk(Live, m)
          /\ \A l \in generateLegalMoves(Live) : ~sameSquares(m, l)
    /\ \E m \in MoveInputs(Live) :
          /\ moveOk(Live, m)
          /\ \E l \in generateLegalMoves(Live) : sameSquares(m, l)

\* ---------------------------------------------------------------------- C9
kings(b, c) == {x \in Cells : b[x].type = King /\ b[x].color = c}

\* C9: in every state of the game loop exactly one king of each colour
\* stands on the board.
C9_OneKingPerColour ==
    \A c \in {White, Black} : Cardinality(kings(board, c)) = 1

\* --------------------------------------------------------------------- C10
\* the moves with both cells on the board among the moves a caller tries
onBoard(g) ==
    {m \in MoveInputs(g) :
        withinBoard(m.oldRow, m.oldCol) /\ withinBoard(m.newRow, m.newCol)}

\* some cell strictly between origin and destination is occupied
passesOverPiece(b, m) ==
    \E z \in cellsBetween(cell(m.oldRow, m.oldCol), cell(m.newRow, m.newCol)) :
        b[z] # NoPiece

\* C10: no move of a bishop, rook, queen or pawn that isValidMove accepts
\* passes over an occupied cell; isValidMove rejects every move onto a piece of
\* the mover's colour (the move onto the origin included), and accepts a
\* knight's move whenever it has the knight's shape and does not end on a
\* piece of the mover's colour, whatever stands on the other cells.
C10_PathAndDestination ==
    \A m \in onBoard(Live) :
        LET piece == getPieceAt(board, m.oldRow, m.oldCol)
            nextPiece == getPieceAt(board, m.newRow, m.newCol)
            valid == isValidMove(turn, m, board, moveList)
        IN  /\ (piece.type \in {Bishop, Rook, Queen, Pawn} /\ valid)
                  => ~passesOverPiece(board, m)
            /\ (piece # NoPiece /\ nextPiece.color = piece.color) => ~valid
            /\ (piece.type = Knight /\ piece.color = turn) =>
                  (valid <=>
                      /\ {abs(m.newRow - m.oldRow), abs(m.newCol - m.oldCol)}
                             = {1, 2}
                      /\ nextPiece.color # turn)

\* after an accepted move, a rook, bishop or queen of the side to move has
\* one move that a piece in its way forbids and one with a free way of at
\* least one cell, which isValidMove accepts
C10_Witness ==
    /\ pc = "play"
    /\ Len(moveList) > 0
    /\ \E m \in onBoard(Live) :
          /\ getPieceAt(board, m.oldRow, m.oldCol).type \in {Bishop, Rook, Queen}
          /\ isMoveValid(getPieceAt(board, m.oldRow, m.oldCol), m)
          /\ getPieceAt(board, m.newRow, m.newCol).color # turn
          /\ passesOverPiece(board, m)
          /\ ~isValidMove(turn, m, board, moveList)
          /\ \E k \in onBoard(Live) :
                /\ m.oldRow = k.oldRow /\ m.oldCol = k.oldCol
                /\ cellsBetween(cell(k.oldRow, k.oldCol),
                                cell(k.newRow, k.newCol)) # {}
                /\ isValidMove(turn, k, board, moveList)

\* --------------------------------------------------------------------- C11
\* a pawn of the side to move arrives on the farthest rank
legalPromotion(g, m) ==
    /\ getPieceAt(g.board, m.oldRow, m.oldCol).type = Pawn
    /\ m.newRow = (IF g.turn = White THEN 0 ELSE BoardSize - 1)

\* C11: when attemptMove accepts a move that is not a pawn's arrival on the
\* farthest rank, attemptPromotionMove with that move leaves the game that
\* attemptMove leaves: the destination holds the piece that moved.
C11_PromotionOnPlainMove ==
    pc = "play" =>
        \A m \in MoveInputs(Live) :
            (moveOk(Live, m) /\ ~legalPromotion(Live, m)) =>
                \A t \in PromotionTypes :
                    movePromotion(Live, m, Piece(t, turn, 0)) = move(Live, m)

\* --------------------------------------------------------------------- C12
\* C12: resign leaves the GameState ResignedWhite when White is the side to
\* move and ResignedBlack when Black is, from every GameState, and no step
\* that changes the board, the history or the turn is a call of resign.
C12_Resign ==
    /\ [](resign(Live) =
             IF turn = White THEN ResignedWhite ELSE ResignedBlack)
    /\ [][(board' # board \/ moveList' # moveList \/ turn' # turn)
             => ~Resign]_vars

\* Black has resigned after an accepted move of White that left Black's
\* king in check: the resignation replaced the recorded check
C12_Witness ==
    /\ gameState = ResignedBlack
    /\ turn = Black
    /\ Len(moveList) > 0
    /\ kingIsInCheck(Live, Black)

\* C13: a move-selection call leaves the live game unchanged.  Level1,
\* Level2 and Level3 only read the game; the game that Level4::getMove
\* passes by reference to minimax is, when the search of any depth bound
\* returns, the game it was before the call: board, history, state and
\* turn.
C13_GetMoveLeavesGame ==
    pc = "play" =>
        \A d \in 1 .. MaxDepth : Level4search(Live, d).game = Live

\* a search that simulated moves two plies deep and chose a legal move,
\* in a game with a history
C13_Witness ==
    /\ pc = "play"
    /\ Len(moveList) > 0
    /\ \E r \in {Level4search(Live, MaxDepth)} :
          /\ r.bestMove # noMove
          /\ moveOk(Live, r.bestMove)
          /\ r.game = Live

\* C14: an empty legal-move set is a leaf.  When the side to move has no
\* legal move, the search of any depth bound returns the static evaluation
\* evaluateBoard of the position, and no policy takes an element of the
\* empty move collection.
C14_EmptyMoveSetIsLeaf ==
    (pc = "play" /\ generateLegalMoves(Live) = {}) =>
        /\ \A d \in 1 .. MaxDepth :
              Level4search(Live, d).value = evaluateBoard(Live, turn)
        /\ Level1getMove(Live) \cap undefinedMoves(Live) = {}
        /\ Level2getMove(Live) \cap undefinedMoves(Live) = {}
        /\ Level3getMove(Live) \cap undefinedMoves(Live) = {}

\* C15: the plies of the search alternate sides.  The game a maximizing
\* node hands to the minimizing node below it is the game after
\* tempGame.move(move) for a legal move of the searching side; in that
\* game the opponent is to move, and the moves expanded there are the
\* opponent's.
C15_PliesAlternate ==
    pc = "play" =>
        \A m \in generateLegalMoves(Live) :
            \E tempGame \in {move(Live, m).game} :
                /\ tempGame.turn = opponent(turn)
                /\ \A k \in generateLegalMoves(tempGame) :
                      k.color = opponent(turn)

\* the material balance, for the side to move, of the position after the
\* legal move m
balanceAfter(g, m) == evaluateBoard(move(g, m).game, g.turn)

\* C16: with depth bound 1 the minimax policy selects a legal move that
\* maximizes the material balance of the position after the move, seen
\* from the searching side; a capture that wins more material than every
\* other move is therefore the move selected.
C16_DepthOneMaximizesMaterial ==
    pc = "play" =>
        \E legal \in {generateLegalMoves(Live)} :
            legal # {} =>
                \E best \in {Level4getMove(Live, 1)} :
                    /\ \E l \in legal : l = best
                    /\ \A k \in legal :
                          balanceAfter(Live, k) <= balanceAfter(Live, best)

\* C17: increasing the depth bound never decreases the value the root call
\* of the search returns: for every depth bound d from 1 on, the value at
\* depth d + 1 is at least the value at depth d.
C17_DeeperIsNoWorse ==
    pc = "play" =>
        \A d \in 1 .. MaxDepth :
            Level4search(Live, d).value <= Level4search(Live, d + 1).value

\* the pieces of a colour on a board
piecesOf(b, color) == {x \in Cells : b[x] # NoPiece /\ b[x].color = color}

\* the legal move m takes a piece of the opponent off the board
captures(g, m) ==
    Cardinality(piecesOf(move(g, m).game.board, opponent(g.turn)))
        < Cardinality(piecesOf(g.board, opponent(g.turn)))

\* the legal move m leaves the opponent's king in check
givesCheck(g, m) ==
    \E after \in {move(g, m).game} :
        isKingInCheckInternal(opponent(g.turn), after.board, after.moveList)

\* after the legal move m no pseudo-legal move of the opponent ends on the
\* destination of m
safe(g, m) ==
    \E after \in {move(g, m).game} :
        \A k \in generateLegalMovesInternal(opponent(g.turn), after.board,
                                            after.moveList) :
            ~(k.newRow = m.newRow /\ k.newCol = m.newCol)

\* C18: the heuristic policies return a legal move of the highest
\* non-empty preference tier.  Level3 returns a checking move if a legal
\* move gives check, otherwise a capturing move if a legal move captures,
\* otherwise a safe move if there is one, otherwise any legal move; Level2
\* returns a capturing or checking move if there is one, otherwise any
\* legal move.
C18_HighestTier ==
    pc = "play" =>
        LET legal == generateLegalMoves(Live)
            checking == {m \in legal : givesCheck(Live, m)}
            capturing == {m \in legal : captures(Live, m)}
            safeMoves == {m \in legal : safe(Live, m)}
            tier3 == IF checking # {} THEN checking
                     ELSE IF capturing # {} THEN capturing
                     ELSE IF safeMoves # {} THEN safeMoves
                     ELSE legal
            tier2 == IF checking \cup capturing # {}
                     THEN checking \cup capturing ELSE legal
        IN  legal # {} =>
                /\ \A m \in Level3getMove(Live) : \E t \in tier3 : t = m
                /\ \A m \in Level2getMove(Live) : \E t \in tier2 : t = m

\* C19: whenever the side to move has a legal move and the state is
\* Ongoing or a check against the side to move, the minimax policy of any
\* depth bound returns one of the legal moves: a root in which the
\* searching side is in check is expanded.
C19_MinimaxReturnsLegalMove ==
    (pc = "play" /\ gameState \in {Ongoing, checkAgainst(turn)}) =>
        \E legal \in {generateLegalMoves(Live)} :
            legal # {} =>
                \A d \in 1 .. MaxDepth :
                    \E l \in legal : l = Level4getMove(Live, d)

\* the value of Level4::minimax with the cutoffs disabled: every legal
\* move of every expanded node is searched
RECURSIVE plainValue(_, _, _, _)
plainValue(game, depth, maximizingPlayer, color) ==
    IF depth = 0 \/ game.gameState # Ongoing
    THEN evaluateBoard(game, color)
    ELSE LET evals == {plainValue(move(game, m).game, depth - 1,
                                  ~maximizingPlayer, color) :
                          m \in generateLegalMoves(game)}
         IN  IF maximizingPlayer
             THEN CHOOSE v \in evals \cup {-1000000} :
                      \A w \in evals : w <= v
             ELSE CHOOSE v \in evals \cup {1000000} :
                      \A w \in evals : v <= w

\* the root moves whose subtree has the value v in the search without
\* cutoffs
attaining(g, depth, v) ==
    {m \in generateLegalMoves(g) :
        plainValue(move(g, m).game, depth - 1, FALSE, g.turn) = v}

\* C20: alpha-beta pruning does not change the result of the search.  For
\* every depth bound the root call with cutoffs returns the value of the
\* search without cutoffs, and when the root is expanded and has legal
\* moves the recorded best move is the first root move, in the order of
\* the legal-move enumeration, that attains this value.
C20_PruningKeepsResult ==
    pc = "play" =>
        \A d \in 1 .. MaxDepth + 1 :
            \E r \in {Level4search(Live, d)} :
                /\ r.value = plainValue(Live, d, TRUE, turn)
                /\ (gameState = Ongoing /\ generateLegalMoves(Live) # {}) =>
                      \E first \in attaining(Live, d, r.value) :
                          /\ first = r.bestMove
                          /\ \A m \in attaining(Live, d, r.value) :
                                moveKey(first) <= moveKey(m)

\* --------------------------------------------------------------------- C21
\* C21: terminal states are absorbing.  Once the GameState is a Checkmate
\* state, Stalemate, ResignedWhite or ResignedBlack, no call of attemptMove,
\* attemptPromotionMove or computeStalemate changes the GameState, the
\* board or the history, with or without a turn advance in between.
C21_TerminalAbsorbing ==
    [][(/\ gameState \in {CheckmateForWhite, CheckmateForBlack, Stalemate,
                          ResignedWhite, ResignedBlack}
        /\ (AttemptMove \/ AttemptPromotionMove \/ ComputeStalemate))
          => UNCHANGED <<gameState, board, moveList>>]_vars
====
